---- MODULE Spec2Model ----
(***************************************************************************)
(* Speech scheduler of WEBWAIFU V2 (js/app.js): speakText, its pre-buffer  *)
(* slot nextChunkReady, the onended handler of each chunk's Audio element, *)
(* the catch block, and the mouth part of the render loop (animate).       *)
(*                                                                         *)
(* JavaScript runs every handler to completion, so one action is one       *)
(* handler run from its entry (or from the await it resumes at) to the     *)
(* next await or to its return.                                            *)
(***************************************************************************)
EXTENDS Integers, Sequences, FiniteSets, TLC

\* ----- bounds ------------------------------------------------------------
MaxSpeak == 3          \* speakText calls with a non-empty text

Texts == {"a", "b"}    \* the strings passed to speakText
Ids == 1..MaxSpeak     \* k = the k-th accepted speakText call

\* ----- configuration the scheduler runs in -------------------------------
\* loadAnimations has completed: the mixer and both clips exist.
mixerReady == TRUE
idleAnimationLoaded == TRUE
talkingAnimationLoaded == TRUE

\* ----- values --------------------------------------------------------------
\* nextChunkReady = null
NoChunk == [text |-> "", audio |-> ""]

\* What synthesizeChunk / synthesizeFishAudioChunk resolve to for `text`:
\* the result carries the text it was asked for; `audio` stands for the
\* audioBlob (and word boundaries, phonemes) and names the text it sounds.
SynthResult(text) == [text |-> text, audio |-> text]

\* The lip-sync state when a chunk with word boundaries `track` starts
\* while the #mouthSmoothing slider stands at `value` percent:
\* previousAa = previousIh = previousOu = 0 (their initial values), the
\* avatar's aa/ih/ou at 0, no frame computed yet.  branch, wordIndex,
\* audioAmplitude, currentTime and target* record what the last frame
\* computed, cut that it was a silent frame entered with a previous*
\* other than 0.
LipStart(track, value) ==
    [wordBoundaries |-> track, mouthSmoothing |-> value,
     previousAa |-> 0, previousIh |-> 0, previousOu |-> 0,
     aa |-> 0, ih |-> 0, ou |-> 0,
     targetAa |-> 0, targetIh |-> 0, targetOu |-> 0,
     branch |-> "none", wordIndex |-> -1, cut |-> FALSE,
     audioAmplitude |-> 0, currentTime |-> 0, frames |-> 0]

\* synthesizeChunk at its entry: audioChunks = [], wordBoundaries = [],
\* totalAudioOffset = 0, perWordPhonemes = null.  events records the
\* WordBoundary chunks the stream delivered, segments the phonemizer's
\* output, phonemizeThrew that phonemize() threw; pc is "stream" in the
\* for-await loop, "phonemize" at `await phonemize`, then "returned" or
\* "thrown".
SynStart ==
    [pc |-> "stream", audioChunks |-> 0, wordBoundaries |-> <<>>,
     totalAudioOffset |-> 0, events |-> <<>>, hasValidTiming |-> FALSE,
     segments |-> <<>>, perWordPhonemes |-> <<>>, phonemesNull |-> TRUE,
     phonemizeThrew |-> FALSE]

MaxModels == 2         \* Live2D models one manager loads
MaxCalls == 5          \* disableAnimations/enableAnimations calls
Models == 1..MaxModels

\* A Live2DManager after its constructor (live2d-manager.js lines 9-34):
\* currentModel = null (0), _originalMotionUpdate = null (0),
\* _motionsDisabled = false.  update[m] is motionManager.update of model m:
\* 0 = the empty function `() => {}`, k = the update method the library
\* gave model k, bound to model k's motion manager.  loading: a loadModel
\* call waits at `await Live2DModel.from`; created counts the models
\* made so far, calls the disableAnimations/enableAnimations calls.
LiveStart ==
    [currentModel |-> 0, loading |-> FALSE,
     update |-> [m \in Models |-> m],
     _originalMotionUpdate |-> 0, _motionsDisabled |-> FALSE,
     created |-> 0, calls |-> 0, last |-> "new"]

MaxMessages == 5       \* messages submitted to sendToAI

\* sendToAI before the first message (app.js lines 129-130):
\* isProcessing = false, requestQueue = [].  Messages are numbered in
\* submission order.  active: the invocations that passed the guard of
\* line 2316 and have not reached `finally`; started/finished: the
\* messages in the order their request began/their finally ran; failed:
\* the ones whose request threw; submitted counts the messages; pc is the
\* await the invocation in progress waits at ("memories", "llm", "speak").
ChatStart ==
    [isProcessing |-> FALSE, requestQueue |-> <<>>, active |-> {},
     started |-> <<>>, finished |-> <<>>, failed |-> {}, submitted |-> 0,
     pc |-> "idle"]

VARIABLES
    isSpeaking,      \* APP_STATE.isSpeaking
    speechQueue,     \* APP_STATE.speechQueue, as the ids of the queued calls
    nextChunkReady,  \* the pre-buffer slot
    currentAudio,    \* APP_STATE.currentAudio: id of the last Audio, 0 = null
    wordBoundaries,  \* APP_STATE.wordBoundaries/currentPhonemes: text of the
                     \* result they were taken from, "" = []
    animation,       \* APP_STATE.currentAnimationName
    mouth,           \* VRM aa/ih/ou: "closed" = all 0, "driven" = written by
                     \* the smoothing path of updateLipSync
    previous,        \* previousAa/Ih/Ou: "zero" or "smoothed"
    st,              \* per call: where its speakText invocation / Audio is
    textOf,          \* per call: the text argument
    audioOf,         \* per call: the chunkData its Audio was built from
    pre,             \* per call: pre-buffer synthesis promises in flight
    synthCount,      \* per call: synthesis requests issued so far
    played,          \* chunks whose playback began, in order
    statusErrors,    \* showStatus('... TTS error ...') calls
    prebufFailures,  \* per call: console.warn('Pre-buffer failed') calls
    overtook,        \* a pre-buffer resolved while an earlier call's fresh
                     \* synthesis was still awaited
    nextId,          \* number of accepted calls + 1
    rendered,        \* TRUE iff the last step was a render frame
    lip,             \* updateLipSync in numbers: the playing chunk's word
                     \* boundaries, previousAa/Ih/Ou, the avatar's aa/ih/ou
    syn,             \* one synthesizeChunk invocation: its locals
    live,            \* one Live2DManager: its fields and its models'
                     \* motionManager.update
    chat             \* sendToAI: APP_STATE.isProcessing, requestQueue and
                     \* the invocations between their guard and finally

\* the variables of the speech scheduler
schedVars == <<isSpeaking, speechQueue, nextChunkReady, currentAudio,
               wordBoundaries, animation, mouth, previous, st, textOf,
               audioOf, pre, synthCount, played, statusErrors,
               prebufFailures, overtook, nextId, rendered>>

vars == <<isSpeaking, speechQueue, nextChunkReady, currentAudio,
          wordBoundaries, animation, mouth, previous, st, textOf, audioOf,
          pre, synthCount, played, statusErrors, prebufFailures, overtook, nextId, rendered,
          lip, syn, live, chat>>

Statuses == {"new", "queued", "synth", "starting", "playing", "finished",
             "ended", "synthFailed", "playFailed"}

TypeOK ==
    /\ isSpeaking \in BOOLEAN
    /\ speechQueue \in Seq(Ids)
    /\ nextChunkReady \in {NoChunk} \cup {SynthResult(t) : t \in Texts}
    /\ currentAudio \in 0..MaxSpeak
    /\ wordBoundaries \in Texts \cup {""}
    /\ animation \in {"idle", "talking"}
    /\ mouth \in {"closed", "driven"}
    /\ previous \in {"zero", "smoothed"}
    /\ st \in [Ids -> Statuses]
    /\ textOf \in [Ids -> Texts \cup {""}]
    /\ pre \in [Ids -> Nat]
    /\ synthCount \in [Ids -> Nat]
    /\ statusErrors \in Nat
    /\ prebufFailures \in [Ids -> Nat]
    /\ overtook \in BOOLEAN
    /\ nextId \in 1..(MaxSpeak + 1)
    /\ rendered \in BOOLEAN

\* the scheduler before the first speakText call
SchedulerInit ==
    /\ isSpeaking = FALSE
    /\ speechQueue = <<>>
    /\ nextChunkReady = NoChunk
    /\ currentAudio = 0
    /\ wordBoundaries = ""
    /\ animation = "idle"
    /\ mouth = "closed"
    /\ previous = "zero"
    /\ st = [i \in Ids |-> "new"]
    /\ textOf = [i \in Ids |-> ""]
    /\ audioOf = [i \in Ids |-> [src |-> "", buffered |-> FALSE]]
    /\ pre = [i \in Ids |-> 0]
    /\ synthCount = [i \in Ids |-> 0]
    /\ played = <<>>
    /\ statusErrors = 0
    /\ prebufFailures = [i \in Ids |-> 0]
    /\ overtook = FALSE
    /\ nextId = 1
    /\ rendered = FALSE

Init ==
    /\ SchedulerInit
    /\ lip = LipStart(<<>>, 10)
    /\ syn = SynStart
    /\ live = LiveStart
    /\ chat = ChatStart

\* ----- helpers -------------------------------------------------------------

\* playAnimation(type): the new currentAnimationName.
playAnimation(type, cur) ==
    IF ~mixerReady THEN cur
    ELSE IF type = "idle" /\ idleAnimationLoaded THEN "idle"
    ELSE IF type = "talking" /\ talkingAnimationLoaded THEN "talking"
    ELSE cur

\* a speakText that never takes the queueing branch
IsBusyNever(spk) == FALSE

\* `if (APP_STATE.isSpeaking)` at the head of speakText.
IsBusy(spk) == spk

\* a slot test that forgets the text comparison
SlotMatchesAny(slot, text) == slot # NoChunk

\* `nextChunkReady && nextChunkReady.text === text`
SlotMatches(slot, text) == slot # NoChunk /\ slot.text = text

\* an enqueue-time test that does not look at the slot
EnqueuePrebuffersAnySlot(q, slot) == Len(q) = 1

\* `APP_STATE.speechQueue.length === 1 && !nextChunkReady` after the push
EnqueuePrebuffers(q, slot) == Len(q) = 1 /\ slot = NoChunk

\* pop() instead of shift()
ShiftLast(q) == [next |-> q[Len(q)], rest |-> SubSeq(q, 1, Len(q) - 1)]

\* speechQueue[0] read without removing it
ShiftKeeps(q) == [next |-> Head(q), rest |-> q]

\* `APP_STATE.speechQueue && APP_STATE.speechQueue.length > 0` in onended
MoreToPlayNever(q) == FALSE

MoreToPlay(q) == Len(q) > 0

\* speechQueue.shift(): the element taken and what stays queued
Shift(q) == [next |-> Head(q), rest |-> Tail(q)]

\* HTMLMediaElement.paused / .ended of the Audio created for call i
Paused(i) == st[i] \in {"playFailed", "finished", "ended"}
Ended(i) == st[i] \in {"finished", "ended"}

\* one more pre-buffer promise in flight for the head of q, if any
\* (`if (APP_STATE.speechQueue.length > 0) synthesizeFunc(speechQueue[0])`)
PrebufferHead(q, f) == IF Len(q) > 0 THEN [f EXCEPT ![q[1]] = @ + 1] ELSE f

\* ----- speakText ---------------------------------------------------------

\* a chunk start that leaves the lip-sync data of the chunk before in place
PlayKeepsLipData(i, chunk, buffered, q, s0, sc) ==
    /\ wordBoundaries' = wordBoundaries
    /\ pre' = PrebufferHead(q, pre)
    /\ synthCount' = PrebufferHead(q, sc)
    /\ currentAudio' = i
    /\ audioOf' = [audioOf EXCEPT ![i] = [src |-> chunk.audio,
                                          buffered |-> buffered]]
    /\ st' = [s0 EXCEPT ![i] = "starting"]

\* speakText from `const { audioBlob, wordBoundaries, phonemes } = chunkData`
\* to `await APP_STATE.currentAudio.play()`: store the lip-sync data, start
\* pre-buffering speechQueue[0], create the Audio and call play().
Play(i, chunk, buffered, q, s0, sc) ==
    /\ wordBoundaries' = chunk.audio
    /\ pre' = PrebufferHead(q, pre)
    /\ synthCount' = PrebufferHead(q, sc)
    /\ currentAudio' = i
    /\ audioOf' = [audioOf EXCEPT ![i] = [src |-> chunk.audio,
                                          buffered |-> buffered]]
    /\ st' = [s0 EXCEPT ![i] = "starting"]

\* a chunk start without the reset of lines 1607-1621
StartChunkKeepsMouth(i, t, q, s0) ==
    /\ isSpeaking' = TRUE
    /\ previous' = previous
    /\ animation' = playAnimation("talking", animation)
    /\ mouth' = mouth
    /\ speechQueue' = q
    /\ IF SlotMatches(nextChunkReady, t)
       THEN /\ nextChunkReady' = NoChunk
            /\ Play(i, nextChunkReady, TRUE, q, s0, synthCount)
       ELSE /\ st' = [s0 EXCEPT ![i] = "synth"]
            /\ synthCount' = [synthCount EXCEPT ![i] = @ + 1]
            /\ UNCHANGED <<nextChunkReady, pre, currentAudio,
                           wordBoundaries, audioOf>>

\* speakText from `try { APP_STATE.isSpeaking = true` on: reset the mouth
\* state, switch to the talking animation, then either take the slot and go
\* straight on to Play, or request a fresh synthesis and suspend.
StartChunk(i, t, q, s0) ==
    /\ isSpeaking' = TRUE
    /\ previous' = "zero"
    /\ animation' = playAnimation("talking", animation)
    /\ mouth' = "closed"
    /\ speechQueue' = q
    /\ IF SlotMatches(nextChunkReady, t)
       THEN /\ nextChunkReady' = NoChunk
            /\ Play(i, nextChunkReady, TRUE, q, s0, synthCount)
       ELSE /\ st' = [s0 EXCEPT ![i] = "synth"]
            /\ synthCount' = [synthCount EXCEPT ![i] = @ + 1]
            /\ UNCHANGED <<nextChunkReady, pre, currentAudio,
                           wordBoundaries, audioOf>>

\* speakText(t) for a non-empty t, called while isSpeaking = spk, the queue
\* is q and the mouth is m0.
SpeakBody(i, t, spk, q, s0, m0) ==
    IF IsBusy(spk)
    THEN /\ speechQueue' = Append(q, i)
         /\ st' = [s0 EXCEPT ![i] = "queued"]
         /\ IF EnqueuePrebuffers(Append(q, i), nextChunkReady)
            THEN /\ pre' = [pre EXCEPT ![i] = @ + 1]
                 /\ synthCount' = [synthCount EXCEPT ![i] = @ + 1]
            ELSE UNCHANGED <<pre, synthCount>>
         /\ isSpeaking' = spk
         /\ mouth' = m0
         /\ UNCHANGED <<nextChunkReady, currentAudio, wordBoundaries,
                        animation, previous, audioOf>>
    ELSE StartChunk(i, t, q, s0)

\* A caller (sendToAI, the test buttons) calls speakText(t).
Speak(t) ==
    /\ rendered' = FALSE
    /\ UNCHANGED <<lip, syn, live, chat>>
    /\ IF t = ""
       THEN /\ UNCHANGED <<isSpeaking, speechQueue, nextChunkReady,
                           currentAudio, wordBoundaries, animation, mouth,
                           previous, st, textOf, audioOf, pre, synthCount,
                           played, statusErrors, prebufFailures, overtook, nextId>>
       ELSE /\ nextId <= MaxSpeak
            /\ nextId' = nextId + 1
            /\ textOf' = [textOf EXCEPT ![nextId] = t]
            /\ SpeakBody(nextId, t, isSpeaking, speechQueue, st, mouth)
            /\ UNCHANGED <<played, statusErrors, prebufFailures, overtook>>

\* The fresh synthesis awaited by call i resolves.
SynthResolve(i) ==
    /\ st[i] = "synth"
    /\ rendered' = FALSE
    /\ UNCHANGED <<lip, syn, live, chat>>
    /\ Play(i, SynthResult(textOf[i]), FALSE, speechQueue, st, synthCount)
    /\ UNCHANGED <<isSpeaking, speechQueue, nextChunkReady, animation,
                   mouth, previous, textOf, played, statusErrors,
                   prebufFailures, overtook, nextId>>

\* a catch block without playAnimation('idle')
CatchKeepsAnimation ==
    /\ isSpeaking' = FALSE
    /\ animation' = animation
    /\ statusErrors' = statusErrors + 1

\* catch (error): isSpeaking = false; playAnimation('idle'); showStatus(...)
Catch ==
    /\ isSpeaking' = FALSE
    /\ animation' = playAnimation("idle", animation)
    /\ statusErrors' = statusErrors + 1

\* The fresh synthesis awaited by call i rejects.
SynthReject(i) ==
    /\ st[i] = "synth"
    /\ rendered' = FALSE
    /\ UNCHANGED <<lip, syn, live, chat>>
    /\ st' = [st EXCEPT ![i] = "synthFailed"]
    /\ Catch
    /\ UNCHANGED <<speechQueue, nextChunkReady, currentAudio,
                   wordBoundaries, mouth, previous, textOf, audioOf, pre,
                   synthCount, played, prebufFailures, overtook, nextId>>

\* currentAudio.play() of call i resolves: playback has begun.
PlayResolve(i) ==
    /\ st[i] = "starting"
    /\ rendered' = FALSE
    /\ UNCHANGED <<lip, syn, live, chat>>
    /\ st' = [st EXCEPT ![i] = "playing"]
    /\ played' = Append(played, [id |-> i, text |-> textOf[i],
                                 audio |-> audioOf[i].src,
                                 buffered |-> audioOf[i].buffered])
    /\ UNCHANGED <<isSpeaking, speechQueue, nextChunkReady, currentAudio,
                   wordBoundaries, animation, mouth, previous, textOf,
                   audioOf, pre, synthCount, statusErrors, prebufFailures, overtook, nextId>>

\* currentAudio.play() of call i rejects: the Audio stays paused.
PlayReject(i) ==
    /\ st[i] = "starting"
    /\ rendered' = FALSE
    /\ UNCHANGED <<lip, syn, live, chat>>
    /\ st' = [st EXCEPT ![i] = "playFailed"]
    /\ Catch
    /\ UNCHANGED <<speechQueue, nextChunkReady, currentAudio,
                   wordBoundaries, mouth, previous, textOf, audioOf, pre,
                   synthCount, played, prebufFailures, overtook, nextId>>

\* The Audio of call i reaches its end; its ended event is queued.
AudioEnds(i) ==
    /\ st[i] = "playing"
    /\ rendered' = FALSE
    /\ UNCHANGED <<lip, syn, live, chat>>
    /\ st' = [st EXCEPT ![i] = "finished"]
    /\ UNCHANGED <<isSpeaking, speechQueue, nextChunkReady, currentAudio,
                   wordBoundaries, animation, mouth, previous, textOf,
                   audioOf, pre, synthCount, played, statusErrors,
                   prebufFailures, overtook, nextId>>

\* currentAudio.onended of call i.
OnEnded(i) ==
    /\ st[i] = "finished"
    /\ rendered' = FALSE
    /\ UNCHANGED <<lip, syn, live, chat>>
    /\ IF currentAudio = 0
       THEN UNCHANGED <<isSpeaking, speechQueue, nextChunkReady,
                        currentAudio, wordBoundaries, animation, mouth,
                        previous, st, audioOf, pre, synthCount>>
       ELSE IF MoreToPlay(speechQueue)
       THEN LET sh == Shift(speechQueue)
            IN  SpeakBody(sh.next, textOf[sh.next], FALSE, sh.rest,
                          [st EXCEPT ![i] = "ended"], "closed")
       ELSE /\ isSpeaking' = FALSE
            /\ wordBoundaries' = ""
            /\ mouth' = "closed"
            /\ animation' = playAnimation("idle", animation)
            /\ st' = [st EXCEPT ![i] = "ended"]
            /\ UNCHANGED <<speechQueue, nextChunkReady, currentAudio,
                           previous, audioOf, pre, synthCount>>
    /\ UNCHANGED <<textOf, played, statusErrors, prebufFailures, overtook,
                   nextId>>

\* A pre-buffer promise for call i resolves: `nextChunkReady = result`.
PrebufResolve(i) ==
    /\ pre[i] > 0
    /\ rendered' = FALSE
    /\ UNCHANGED <<lip, syn, live, chat>>
    /\ pre' = [pre EXCEPT ![i] = @ - 1]
    /\ nextChunkReady' = SynthResult(textOf[i])
    /\ overtook' = (overtook \/ \E j \in Ids : j < i /\ st[j] = "synth")
    /\ UNCHANGED <<isSpeaking, speechQueue, currentAudio, wordBoundaries,
                   animation, mouth, previous, st, textOf, audioOf,
                   synthCount, played, statusErrors, prebufFailures, nextId>>

\* A pre-buffer promise for call i rejects: console.warn only.
PrebufReject(i) ==
    /\ pre[i] > 0
    /\ rendered' = FALSE
    /\ UNCHANGED <<lip, syn, live, chat>>
    /\ pre' = [pre EXCEPT ![i] = @ - 1]
    /\ prebufFailures' = [prebufFailures EXCEPT ![i] = @ + 1]
    /\ UNCHANGED <<isSpeaking, speechQueue, nextChunkReady, currentAudio,
                   wordBoundaries, animation, mouth, previous, st, textOf,
                   audioOf, synthCount, played, statusErrors, overtook, nextId>>

\* ----- render loop -------------------------------------------------------

\* updateLipSync, given whether getAudioAmplitude() > 0.02.
updateLipSync(isAudioActive) ==
    IF Paused(currentAudio) \/ Ended(currentAudio)
    THEN mouth' = "closed" /\ previous' = "zero"
    ELSE IF ~isSpeaking
    THEN mouth' = "closed" /\ previous' = "zero"
    ELSE IF ~isAudioActive
    THEN mouth' = "closed" /\ previous' = "zero"
    ELSE mouth' = "driven" /\ previous' = "smoothed"

\* animate(): one frame of the mouth update.
Frame ==
    /\ rendered' = TRUE
    /\ UNCHANGED <<lip, syn, live, chat>>
    /\ IF /\ isSpeaking
          /\ currentAudio # 0
          /\ ~Paused(currentAudio)
          /\ ~Ended(currentAudio)
       THEN \E isAudioActive \in BOOLEAN : updateLipSync(isAudioActive)
       ELSE mouth' = "closed" /\ previous' = "zero"
    /\ UNCHANGED <<isSpeaking, speechQueue, nextChunkReady, currentAudio,
                   wordBoundaries, animation, st, textOf, audioOf, pre,
                   synthCount, played, statusErrors, prebufFailures, overtook, nextId>>

Next ==
    \/ \E t \in Texts \cup {""} : Speak(t)
    \/ \E i \in Ids : SynthResolve(i)
    \/ \E i \in Ids : SynthReject(i)
    \/ \E i \in Ids : PlayResolve(i)
    \/ \E i \in Ids : PlayReject(i)
    \/ \E i \in Ids : AudioEnds(i)
    \/ \E i \in Ids : OnEnded(i)
    \/ \E i \in Ids : PrebufResolve(i)
    \/ \E i \in Ids : PrebufReject(i)
    \/ Frame

Spec == Init /\ [][Next]_vars

\* ----- properties ----------------------------------------------------------

NoChunkFailure == statusErrors = 0
NoFailure == NoChunkFailure /\ \A i \in Ids : prebufFailures[i] = 0

\* an Audio is sounding (play() called or playing, not ended)
Sounding(i) == st[i] \in {"starting", "playing"}
\* a speakText invocation is past the isSpeaking test and not yet done
Active(i) == st[i] \in {"synth", "starting", "playing", "finished"}
\* this step ran StartChunk for call i
Started(i) == st[i] \in {"new", "queued"} /\ st'[i] \in {"synth", "starting"}

\* C1: when no synthesis and no playback fails, chunks start playing in the
\* order of their speakText calls, whatever the order in which fresh and
\* pre-buffer syntheses complete.
C1_PlaysInCallOrder ==
    NoFailure =>
        \A j, k \in 1..Len(played) : j < k => played[j].id < played[k].id

\* C1 witness: all calls have started playing in order although a later
\* call's pre-buffer finished before an earlier call's synthesis.
C1_Witness ==
    /\ NoFailure
    /\ overtook
    /\ Len(played) = MaxSpeak
    /\ \A k \in 1..MaxSpeak : played[k].id = k

\* C2: when no synthesis and no playback fails, the k-th chunk to start
\* playing is the k-th accepted text (none skipped, none twice), whether it
\* came from the pre-buffer slot or from a fresh synthesis, and once the
\* scheduler is idle every accepted text has been played.
C2_PlayedExactlyOnce ==
    NoFailure =>
        /\ \A k \in 1..Len(played) :
              played[k].id = k /\ played[k].text = textOf[k]
        /\ ~isSpeaking => Len(played) = nextId - 1

\* C2 witness: idle after three chunks, the second taken from the slot and
\* the third, queued too, synthesized fresh because its pre-buffer was late.
C2_Witness ==
    /\ NoFailure
    /\ ~isSpeaking
    /\ Len(played) = MaxSpeak
    /\ played[2].buffered
    /\ ~played[3].buffered
    /\ synthCount[3] > 1

\* C3: at most one speakText invocation is synthesizing or playing, and at
\* most one Audio is sounding, in every reachable state (failures included).
C3_OneSession ==
    /\ Cardinality({i \in Ids : Active(i)}) <= 1
    /\ Cardinality({i \in Ids : Sounding(i)}) <= 1
    /\ (\E i \in Ids : Active(i)) => isSpeaking

\* C3 witness: after a failure a chunk is playing while others are queued
\* and a pre-buffer is in flight.
C3_Witness ==
    /\ statusErrors > 0
    /\ \E i \in Ids : st[i] = "playing"
    /\ Len(speechQueue) > 0
    /\ \E i \in Ids : pre[i] > 0

\* C4: the slot is emptied only by the start of a chunk whose text equals the
\* slot's text; a chunk started while the slot holds its text plays that
\* result, issues no synthesis request for itself and empties the slot; any
\* other chunk is synthesized fresh and leaves the slot alone; so the audio
\* of every played chunk was synthesized from its own text.
C4_SlotConsumedByText ==
    [][ /\ \A i \in Ids : Started(i) =>
              IF nextChunkReady # NoChunk /\ nextChunkReady.text = textOf'[i]
              THEN /\ st'[i] = "starting"
                   /\ audioOf'[i] = [src |-> nextChunkReady.audio,
                                     buffered |-> TRUE]
                   /\ synthCount'[i] = synthCount[i]
                   /\ nextChunkReady' = NoChunk
              ELSE /\ st'[i] = "synth"
                   /\ synthCount'[i] = synthCount[i] + 1
                   /\ nextChunkReady' = nextChunkReady
        /\ (nextChunkReady # NoChunk /\ nextChunkReady' = NoChunk) =>
              \E i \in Ids : Started(i) /\ nextChunkReady.text = textOf'[i]
        /\ \A k \in 1..Len(played') : played'[k].audio = played'[k].text
      ]_vars

\* C4 witness: one chunk was played from the slot, and a chunk of another
\* text is being synthesized fresh while the slot holds a result.
C4_Witness ==
    /\ \E k \in 1..Len(played) : played[k].buffered
    /\ \E i \in Ids : /\ st[i] = "synth"
                      /\ nextChunkReady # NoChunk
                      /\ nextChunkReady.text # textOf[i]

\* C5: a non-null slot holds the result for the text of speechQueue[0].
C5_SlotIsQueueHead ==
    nextChunkReady # NoChunk =>
        /\ Len(speechQueue) > 0
        /\ nextChunkReady.text = textOf[speechQueue[1]]

\* this step ran the catch block of speakText for the fresh synthesis
SynthFailed(i) == st[i] = "synth" /\ st'[i] = "synthFailed"
\* this step ran the catch block of speakText for a rejected play()
PlayFailed(i) == st[i] = "starting" /\ st'[i] = "playFailed"
\* this step ran the catch handler of a pre-buffer promise of call i
PrebufFailed(i) == prebufFailures'[i] = prebufFailures[i] + 1
\* this step ran the onended handler of the Audio of call i
EndedHandled(i) == st[i] = "finished" /\ st'[i] = "ended"

\* C6: a failed synthesis of the chunk being started surfaces the error,
\* returns the scheduler to idle and keeps the pending texts as they are;
\* and no chunk ever starts playing while a text of an earlier speakText
\* call is still pending.
C6_FailureKeepsFifo ==
    [][ /\ \A i \in Ids : SynthFailed(i) =>
              /\ statusErrors' = statusErrors + 1
              /\ ~isSpeaking'
              /\ speechQueue' = speechQueue
        /\ \A k \in 1..Len(played') : \A j \in 1..Len(speechQueue') :
              played'[k].id < speechQueue'[j]
      ]_vars

MaxWords == 3          \* WordBoundary chunks in one stream
MaxAudio == 1          \* audio chunks counted in one stream
MaxPhonemes == 8       \* segments the phonemizer returns

\* chunk.audioOffset / chunk.duration absent from the chunk
Undefined == -1
\* `chunk.duration || 1000000`
DefaultDuration == 1000000

\* the audioOffset and duration values a WordBoundary chunk reports (ticks)
ReportedOffsets == {Undefined, 0, 2000000}
ReportedDurations == {0, 2000000}
Events == [audioOffset : ReportedOffsets, duration : ReportedDurations]

\* a WordBoundary branch whose accumulator only ever adds the duration
PushWithoutRebase(acc, chunk) ==
    LET duration == IF chunk.duration = Undefined \/ chunk.duration = 0
                    THEN DefaultDuration ELSE chunk.duration
        reported == chunk.audioOffset # Undefined /\ chunk.audioOffset > 0
        offset == IF reported THEN chunk.audioOffset
                  ELSE acc.totalAudioOffset
    IN  [wordBoundaries |->
             Append(acc.wordBoundaries,
                    [offset |-> offset, duration |-> duration]),
         totalAudioOffset |-> acc.totalAudioOffset + duration]

\* lines 1402-1422: one WordBoundary chunk, from the loop's locals
\* acc = [wordBoundaries, totalAudioOffset] to the locals after it.
PushWordBoundary(acc, chunk) ==
    LET duration == IF chunk.duration = Undefined \/ chunk.duration = 0
                    THEN DefaultDuration ELSE chunk.duration
        reported == chunk.audioOffset # Undefined /\ chunk.audioOffset > 0
        offset == IF reported THEN chunk.audioOffset
                  ELSE acc.totalAudioOffset
    IN  [wordBoundaries |->
             Append(acc.wordBoundaries,
                    [offset |-> offset, duration |-> duration]),
         totalAudioOffset |->
             IF reported THEN chunk.audioOffset + duration
             ELSE acc.totalAudioOffset + duration]

\* the loop of lines 1398-1424 over the WordBoundary chunks `chunks`
RECURSIVE Accumulate(_)
Accumulate(chunks) ==
    IF chunks = <<>>
    THEN [wordBoundaries |-> <<>>, totalAudioOffset |-> 0]
    ELSE PushWordBoundary(Accumulate(SubSeq(chunks, 1, Len(chunks) - 1)),
                          chunks[Len(chunks)])

\* lines 1443-1453: the validity synthesizeChunk logs (wordBoundaries
\* non-empty)
SynthHasValidTiming(wbs) ==
    IF Len(wbs) = 1
    THEN wbs[1].duration > 0
    ELSE \E i \in 2..Len(wbs) : wbs[i].offset > wbs[i - 1].offset

\* a hasValidTiming that accepts every track of two or more entries
hasValidTimingAnyPair(wbs) ==
    Len(wbs) > 1

\* lines 1905-1912: the validity updateLipSync computes on every frame
hasValidTiming(wbs) ==
    /\ Len(wbs) > 1
    /\ \E i \in 2..Len(wbs) : wbs[i].offset > wbs[i - 1].offset

\* ''.join: the strings of `strings` one after the other
RECURSIVE Join(_)
Join(strings) ==
    IF strings = <<>> THEN <<>>
    ELSE Head(strings) \o Join(Tail(strings))

\* a grouping that gives the last word a group of perWord like the others
DistributeEvenly(phonemeSegments, wordCount) ==
    LET P == Len(phonemeSegments)
        perWord == IF wordCount = 0 THEN 0 ELSE P \div wordCount
    IN  IF P = wordCount THEN phonemeSegments
        ELSE [i \in 1..wordCount |->
                 Join(SubSeq(phonemeSegments, (i - 1) * perWord + 1,
                             i * perWord))]

\* lines 1468-1486: perWordPhonemes from the segments and the word count
\* (a string is the sequence of its symbols, '' is <<>>)
Distribute(phonemeSegments, wordCount) ==
    LET P == Len(phonemeSegments)
    IN  IF P = wordCount THEN phonemeSegments
        ELSE IF P > wordCount
        THEN LET perWord == IF wordCount = 0 THEN 0 ELSE P \div wordCount
             IN  [i \in 1..wordCount |->
                     LET start == (i - 1) * perWord
                         end == IF i = wordCount THEN P
                                ELSE start + perWord
                     IN  Join(SubSeq(phonemeSegments, start + 1, end))]
        ELSE [i \in 1..wordCount |->
                 LET idx == ((i - 1) * P) \div wordCount
                 IN  IF idx + 1 <= P THEN phonemeSegments[idx + 1]
                     ELSE <<>>]

\* what phonemize() yields after the split on white space: P segments,
\* the k-th one the one-symbol string <<k>>
Segments(P) == [k \in 1..P |-> <<k>>]

\* an emptiness test that also wants the word boundaries missing
AudioAndWordsMissing(s) ==
    s.audioChunks = 0 /\ s.wordBoundaries = <<>>

\* line 1426: `audioChunks.length === 0`
AudioMissing(s) ==
    s.audioChunks = 0

\* line 1399-1400: the stream delivers an audio chunk with data
AudioChunk ==
    /\ syn.pc = "stream"
    /\ syn.audioChunks < MaxAudio
    /\ syn' = [syn EXCEPT !.audioChunks = @ + 1]
    /\ UNCHANGED <<schedVars, lip, live, chat>>

\* lines 1401-1423: the stream delivers a WordBoundary chunk
WordBoundaryChunk(chunk) ==
    /\ syn.pc = "stream"
    /\ Len(syn.events) < MaxWords
    /\ LET acc == PushWordBoundary(
                      [wordBoundaries |-> syn.wordBoundaries,
                       totalAudioOffset |-> syn.totalAudioOffset], chunk)
       IN  syn' = [syn EXCEPT !.wordBoundaries = acc.wordBoundaries,
                              !.totalAudioOffset = acc.totalAudioOffset,
                              !.events = Append(@, chunk)]
    /\ UNCHANGED <<schedVars, lip, live, chat>>

\* lines 1426-1460: the stream is exhausted; throw without audio, else
\* log the validity and call phonemize
StreamEnds ==
    /\ syn.pc = "stream"
    /\ IF AudioMissing(syn)
       THEN syn' = [syn EXCEPT !.pc = "thrown"]
       ELSE syn' = [syn EXCEPT
                       !.pc = "phonemize",
                       !.hasValidTiming =
                           IF Len(syn.wordBoundaries) > 0
                           THEN SynthHasValidTiming(syn.wordBoundaries)
                           ELSE FALSE]
    /\ UNCHANGED <<schedVars, lip, live, chat>>

\* a return of the phoneme segments as they are, not spread over the words
PhonemizeResolvesUnsplit(P) ==
    /\ syn.pc = "phonemize"
    /\ syn' = [syn EXCEPT
                   !.pc = "returned",
                   !.segments = Segments(P),
                   !.perWordPhonemes = Segments(P),
                   !.phonemesNull = FALSE]
    /\ UNCHANGED <<schedVars, lip, live, chat>>

\* lines 1461-1501: phonemize resolved with P segments
PhonemizeResolves(P) ==
    /\ syn.pc = "phonemize"
    /\ syn' = [syn EXCEPT
                   !.pc = "returned",
                   !.segments = Segments(P),
                   !.perWordPhonemes =
                       Distribute(Segments(P), Len(syn.wordBoundaries)),
                   !.phonemesNull = FALSE]
    /\ UNCHANGED <<schedVars, lip, live, chat>>

\* lines 1496-1501: phonemize threw
PhonemizeThrows ==
    /\ syn.pc = "phonemize"
    /\ syn' = [syn EXCEPT !.pc = "returned",
                          !.perWordPhonemes = <<>>,
                          !.phonemesNull = TRUE,
                          !.phonemizeThrew = TRUE]
    /\ UNCHANGED <<schedVars, lip, live, chat>>

NextSynth ==
    \/ AudioChunk
    \/ \E chunk \in Events : WordBoundaryChunk(chunk)
    \/ StreamEnds
    \/ \E P \in 0..MaxPhonemes : PhonemizeResolves(P)
    \/ PhonemizeThrows

SpecSynth == Init /\ [][NextSynth]_vars

\* ===== updateLipSync in numbers ==========================================

MaxFrames == 2         \* frames rendered while one chunk plays
MaxLipWords == 2       \* word boundaries of the playing chunk

\* Blend-shape values, amplitudes and targets are fixed-point numbers:
\* Unit stands for 1.0.
Unit == 1000000
\* `audioAmplitude > 0.02`
SilenceThreshold == (2 * Unit) \div 100
\* wb.offset / 10000000: ticks per second
TicksPerSecond == 10000000
\* currentTime is counted in tenths of a second
TicksPerTime == TicksPerSecond \div 10

Min(a, b) == IF a < b THEN a ELSE b
Max(a, b) == IF a > b THEN a ELSE b

\* what getAudioAmplitude returns: 0.02, 0.03, 1.0
Amplitudes == {SilenceThreshold, (3 * Unit) \div 100, Unit}
\* currentAudio.currentTime
Times == {0, 2, 5}
\* the range Math.sin(currentTime * 4.5) * 0.5 + 0.5 falls in:
\* "aa" = below 0.33, "ih" = below 0.66, "ou" = the rest
Cycles == {"aa", "ih", "ou"}
\* the slider value of #mouthSmoothing, in percent
SmoothingValues == {0, 10, 90}

\* What the phoneme branch finds for the current word: the row of
\* PHONEME_TO_BLEND_SHAPE of the current phoneme in tenths ("mapped": the
\* row of 'ə'), a phoneme without a row that is a vowel or not,
\* or no phoneme at all (cleanPhonemes is empty).
PhonemeCases ==
    {[kind |-> "mapped", aa |-> 5, ih |-> 2, ou |-> 0],
     [kind |-> "vowel", aa |-> 0, ih |-> 0, ou |-> 0],
     [kind |-> "consonant", aa |-> 0, ih |-> 0, ou |-> 0],
     [kind |-> "empty", aa |-> 0, ih |-> 0, ou |-> 0]}

\* the word boundaries synthesizeChunk can hand to a chunk ([] is also
\* what synthesizeFishAudioChunk returns)
RECURSIVE SeqsUpTo(_, _)
SeqsUpTo(S, n) ==
    IF n = 0 THEN {<<>>}
    ELSE LET shorter == SeqsUpTo(S, n - 1)
         IN  shorter \cup {Append(q, e) : q \in shorter, e \in S}

LipTracks == {Accumulate(chunks).wordBoundaries :
                  chunks \in SeqsUpTo(Events, MaxLipWords)}

\* lines 1875-1876
wordStart(wb) == wb.offset \div TicksPerTime
wordEnd(wb) == wordStart(wb) + wb.duration \div TicksPerTime

\* an active-word test that excludes the end of the interval
WordMatchesOpenEnd(wb, currentTime) ==
    currentTime >= wordStart(wb) /\ currentTime < wordEnd(wb)

\* line 1878
WordMatches(wb, currentTime) ==
    currentTime >= wordStart(wb) /\ currentTime <= wordEnd(wb)

\* lines 1870-1883: the loop from index i (1-based here); the result is
\* wordIndex as the code counts it (from 0), -1 = no word.
RECURSIVE FindWordFrom(_, _, _)
FindWordFrom(wbs, currentTime, i) ==
    IF i > Len(wbs) THEN -1
    ELSE IF WordMatches(wbs[i], currentTime) THEN i - 1
    ELSE FindWordFrom(wbs, currentTime, i + 1)

FindWord(wbs, currentTime) == FindWordFrom(wbs, currentTime, 1)

\* an activity test that counts the threshold itself as sound
IsAudioActiveFromThreshold(audioAmplitude) ==
    audioAmplitude >= SilenceThreshold

\* line 1897
IsAudioActive(audioAmplitude) ==
    audioAmplitude > SilenceThreshold

\* a branch test that looks at the validity only
AmplitudeModeOnInvalidOnly(valid, wordIndex) ==
    ~valid

\* line 1939: `!hasValidTiming || !currentWordBoundary`
AmplitudeMode(valid, wordIndex) ==
    ~valid \/ wordIndex = -1

\* lines 1946-1960: the targets of the amplitude branch
AmplitudeTargets(audioAmplitude, cycle) ==
    IF cycle = "aa"
    THEN [aa |-> Min((audioAmplitude * 13) \div 10, Unit),
          ih |-> 0, ou |-> 0]
    ELSE IF cycle = "ih"
    THEN [aa |-> (audioAmplitude * 6) \div 10,
          ih |-> Min((audioAmplitude * 75) \div 100, Unit), ou |-> 0]
    ELSE [aa |-> (audioAmplitude * 6) \div 10,
          ih |-> 0, ou |-> Min((audioAmplitude * 75) \div 100, Unit)]

\* lines 1998-2070: the targets of the phoneme branch
PhonemeTargets(audioAmplitude, ph) ==
    IF ph.kind = "empty"
    THEN [aa |-> (audioAmplitude * 8) \div 10, ih |-> 0, ou |-> 0]
    ELSE IF ph.aa > 0 \/ ph.ih > 0 \/ ph.ou > 0
    THEN LET effectiveAmplitude == Max(audioAmplitude, (3 * Unit) \div 10)
             amplitudeMultiplier == Min(effectiveAmplitude * 2, Unit)
             amplitudeBoost == effectiveAmplitude \div 2
             phonemeAa == Min((ph.aa * amplitudeMultiplier) \div 10
                              + amplitudeBoost, Unit)
             phonemeIh == Min((ph.ih * amplitudeMultiplier) \div 10
                              + (amplitudeBoost * 6) \div 10, Unit)
             phonemeOu == Min((ph.ou * amplitudeMultiplier) \div 10
                              + (amplitudeBoost * 6) \div 10, Unit)
         IN  [aa |-> IF phonemeAa + phonemeIh + phonemeOu
                          < (2 * Unit) \div 10
                     THEN Max(phonemeAa, effectiveAmplitude \div 2)
                     ELSE phonemeAa,
              ih |-> phonemeIh, ou |-> phonemeOu]
    ELSE IF ph.kind = "vowel"
    THEN [aa |-> Max(audioAmplitude, (3 * Unit) \div 10),
          ih |-> 0, ou |-> 0]
    ELSE [aa |-> Max((audioAmplitude * 6) \div 10, (2 * Unit) \div 10),
          ih |-> 0, ou |-> 0]

\* a smoothing step that moves by (1 + smoothingFactor) of the distance
SmoothPast(previousValue, target, value) ==
    previousValue + ((target - previousValue) * (100 + value)) \div 100

\* lines 2076-2078, with smoothingFactor = value / 100 (line 1893)
Smooth(previousValue, target, value) ==
    previousValue + ((target - previousValue) * (100 - value)) \div 100

\* lines 2081-2083
Clamp(x) == Min(Max(x, 0), Unit)

\* the inputs a frame does not use, at the value they are drawn with
NoCycle == "aa"
NoPhoneme == [kind |-> "empty", aa |-> 0, ih |-> 0, ou |-> 0]

\* updateLipSync from line 1866 on (the audio is playing, isSpeaking is
\* set), with what it reads: the amplitude, the playback time, the range
\* of the sine cycle and the current phoneme.  A silent frame uses
\* neither cycle nor phoneme, the amplitude branch no phoneme, the
\* phoneme branch no cycle: an input a frame does not use is drawn at
\* NoCycle, NoPhoneme.
LipSyncFrame(audioAmplitude, currentTime, cycle, ph) ==
    /\ lip.frames < MaxFrames
    /\ IF ~IsAudioActive(audioAmplitude)
       THEN cycle = NoCycle /\ ph = NoPhoneme
       ELSE IF AmplitudeMode(hasValidTiming(lip.wordBoundaries),
                             FindWord(lip.wordBoundaries, currentTime))
       THEN ph = NoPhoneme
       ELSE cycle = NoCycle
    /\ LET wbs == lip.wordBoundaries
           value == lip.mouthSmoothing
           wordIndex == FindWord(wbs, currentTime)
           amplitudeMode == AmplitudeMode(hasValidTiming(wbs), wordIndex)
           target == IF amplitudeMode
                     THEN AmplitudeTargets(audioAmplitude, cycle)
                     ELSE PhonemeTargets(audioAmplitude, ph)
           smoothedAa == Smooth(lip.previousAa, target.aa, value)
           smoothedIh == Smooth(lip.previousIh, target.ih, value)
           smoothedOu == Smooth(lip.previousOu, target.ou, value)
           seen == [lip EXCEPT !.wordIndex = wordIndex,
                               !.audioAmplitude = audioAmplitude,
                               !.currentTime = currentTime,
                               !.frames = @ + 1]
       IN  IF ~IsAudioActive(audioAmplitude)
           THEN lip' = [seen EXCEPT !.branch = "silent",
                                    !.cut = (lip.previousAa # 0
                                             \/ lip.previousIh # 0
                                             \/ lip.previousOu # 0),
                                    !.aa = 0, !.ih = 0, !.ou = 0,
                                    !.targetAa = 0, !.targetIh = 0,
                                    !.targetOu = 0,
                                    !.previousAa = 0, !.previousIh = 0,
                                    !.previousOu = 0]
           ELSE lip' = [seen EXCEPT
                            !.branch = IF amplitudeMode THEN "amplitude"
                                       ELSE "phoneme",
                            !.cut = FALSE,
                            !.targetAa = target.aa,
                            !.targetIh = target.ih,
                            !.targetOu = target.ou,
                            !.aa = Clamp(smoothedAa),
                            !.ih = Clamp(smoothedIh),
                            !.ou = Clamp(smoothedOu),
                            !.previousAa = smoothedAa,
                            !.previousIh = smoothedIh,
                            !.previousOu = smoothedOu]
    /\ UNCHANGED <<schedVars, syn, live, chat>>

\* A chunk with one of the tracks starts playing at one of the slider
\* values; nothing else runs.
InitLip ==
    /\ SchedulerInit
    /\ syn = SynStart
    /\ live = LiveStart
    /\ chat = ChatStart
    /\ lip \in {LipStart(track, value) :
                   track \in LipTracks, value \in SmoothingValues}

NextLip ==
    \E audioAmplitude \in Amplitudes, currentTime \in Times,
       cycle \in Cycles, ph \in PhonemeCases :
        LipSyncFrame(audioAmplitude, currentTime, cycle, ph)

SpecLip == InitLip /\ [][NextLip]_vars

\* ----- properties of updateLipSync ----------------------------------------

\* C11: after every frame whose amplitude sample is at most 0.02 the
\* avatar's aa, ih and ou are exactly 0 and previousAa, previousIh and
\* previousOu are 0, whatever they were before the frame and whatever word
\* boundaries the chunk has.
C11_SilenceCutsToZero ==
    (lip.frames > 0 /\ lip.audioAmplitude <= SilenceThreshold) =>
        /\ lip.aa = 0 /\ lip.ih = 0 /\ lip.ou = 0
        /\ lip.previousAa = 0 /\ lip.previousIh = 0 /\ lip.previousOu = 0

\* a silent frame that found the mouth open, on a chunk whose timing is
\* valid and while one of its words is active
C11_Witness ==
    /\ lip.cut
    /\ lip.audioAmplitude = SilenceThreshold
    /\ hasValidTiming(lip.wordBoundaries)
    /\ lip.wordIndex >= 0

\* some word of the chunk covers the time of the last frame
SomeWordActive ==
    \E i \in 1..Len(lip.wordBoundaries) :
        /\ wordStart(lip.wordBoundaries[i]) <= lip.currentTime
        /\ lip.currentTime <= wordEnd(lip.wordBoundaries[i])

SomePairIncreases(wbs) ==
    \E i \in 2..Len(wbs) : wbs[i].offset > wbs[i - 1].offset

\* C13: on the word boundaries of every synthesis result, the per-frame
\* validity test that gates the phoneme branch is true if and only if the
\* track has exactly one entry with a duration above 0 or has more than
\* one entry and some adjacent pair with strictly increasing offsets, and
\* the validity synthesizeChunk computed gives the same answer.
C13_ValidityTestsAgree ==
    syn.pc = "returned" =>
        LET wbs == syn.wordBoundaries
        IN  /\ hasValidTiming(wbs) <=>
                   \/ Len(wbs) = 1 /\ wbs[1].duration > 0
                   \/ Len(wbs) > 1 /\ SomePairIncreases(wbs)
            /\ syn.hasValidTiming = hasValidTiming(wbs)

\* every adjacent pair of the track has strictly increasing offsets
EveryPairIncreases(wbs) ==
    \A i \in 2..Len(wbs) : wbs[i].offset > wbs[i - 1].offset

\* C14 as stated: every track of more than one entry that the validity
\* tests accept has strictly increasing offsets across all adjacent pairs,
\* and a track with a non-increasing adjacent pair is rejected.
C14_ValidMeansAllIncreasing ==
    (syn.pc = "returned" /\ Len(syn.wordBoundaries) > 1) =>
        /\ hasValidTiming(syn.wordBoundaries) =>
               EveryPairIncreases(syn.wordBoundaries)
        /\ syn.hasValidTiming => EveryPairIncreases(syn.wordBoundaries)

\* C14: on a track of more than one entry the validity synthesizeChunk
\* computes and the per-frame one agree; an accepted track has some entry
\* that starts later than an entry before it, and a track in which no
\* adjacent pair has increasing offsets is rejected.
C14_ValidMeansSomeIncrease ==
    (syn.pc = "returned" /\ Len(syn.wordBoundaries) > 1) =>
        LET wbs == syn.wordBoundaries
        IN  /\ syn.hasValidTiming = hasValidTiming(wbs)
            /\ hasValidTiming(wbs) =>
                   \E i \in 1..Len(wbs) : \E j \in (i + 1)..Len(wbs) :
                       wbs[j].offset > wbs[i].offset
            /\ (\A i \in 2..Len(wbs) :
                       wbs[i].offset <= wbs[i - 1].offset) =>
                   ~hasValidTiming(wbs)

\* an accepted track of three entries with a repeated offset
C14_Witness ==
    /\ syn.pc = "returned"
    /\ Len(syn.wordBoundaries) = 3
    /\ hasValidTiming(syn.wordBoundaries)
    /\ syn.hasValidTiming
    /\ ~EveryPairIncreases(syn.wordBoundaries)

\* the chunk reports a positive audioOffset
ReportsOffset(chunk) ==
    chunk.audioOffset # Undefined /\ chunk.audioOffset > 0

RECURSIVE SumDurations(_, _)
\* the sum of the durations the first n chunks reported
SumDurations(chunks, n) ==
    IF n = 0 THEN 0
    ELSE SumDurations(chunks, n - 1) + chunks[n].duration

\* C15: while the word boundaries of one synthesis accumulate, the k-th
\* chunk is stored with the offset it reports when that is positive, and
\* otherwise (k > 1, offset 0 or none) with the stored offset of chunk
\* k - 1 plus its stored duration; when every chunk reports offset 0 and
\* a positive duration, the stored offsets are the running sums of the
\* durations before them and strictly increase.
C15_OffsetsAccumulate ==
    LET wbs == syn.wordBoundaries
        chunks == syn.events
    IN  /\ Len(wbs) = Len(chunks)
        /\ \A k \in 1..Len(chunks) :
               /\ ReportsOffset(chunks[k]) =>
                      wbs[k].offset = chunks[k].audioOffset
               /\ (k > 1 /\ ~ReportsOffset(chunks[k])) =>
                      wbs[k].offset =
                          wbs[k - 1].offset + wbs[k - 1].duration
        /\ (\A k \in 1..Len(chunks) :
                  chunks[k].audioOffset = 0 /\ chunks[k].duration > 0) =>
               \A k \in 1..Len(chunks) :
                   /\ wbs[k].offset = SumDurations(chunks, k - 1)
                   /\ k > 1 => wbs[k].offset > wbs[k - 1].offset

\* a chunk without a usable offset stored right after one that reported
\* its offset, and another one after it
C15_Witness ==
    /\ Len(syn.events) = 3
    /\ ReportsOffset(syn.events[1])
    /\ syn.events[2].audioOffset = 0
    /\ syn.events[3].audioOffset = Undefined
    /\ syn.wordBoundaries[3].offset > syn.wordBoundaries[2].offset

\* the symbols from..to as one string
Symbols(from, to) == [k \in 1..(to - from + 1) |-> from + k - 1]

\* C16: with N >= 1 words and P phoneme segments, P = N gives word i
\* segment i; P > N gives word i the floor(P/N) segments from index
\* i * floor(P/N) on, the last word all that remain, so that the groups in
\* order make up the input, each has 2 symbols when P = 2N, and 8 over 2
\* words are two groups of 4; P < N gives word i segment floor(i * P / N)
\* (words and segments counted from 0).
C16_PhonemeDistribution ==
    (syn.pc = "returned" /\ ~syn.phonemesNull
         /\ Len(syn.wordBoundaries) >= 1) =>
        LET N == Len(syn.wordBoundaries)
            P == Len(syn.segments)
            perWord == P \div N
            out == syn.perWordPhonemes
        IN  /\ Len(out) = N
            /\ P = N => \A i \in 1..N : out[i] = syn.segments[i]
            /\ P > N =>
                   /\ \A i \in 1..(N - 1) :
                          out[i] = Symbols((i - 1) * perWord + 1,
                                           i * perWord)
                   /\ out[N] = Symbols((N - 1) * perWord + 1, P)
                   /\ Join(out) = Symbols(1, P)
                   /\ P = 2 * N => \A i \in 1..N : Len(out[i]) = 2
            /\ (P = 8 /\ N = 2) =>
                   out = << <<1, 2, 3, 4>>, <<5, 6, 7, 8>> >>
            /\ (P < N /\ P >= 1) =>
                   \A i \in 1..N :
                       out[i] = syn.segments[((i - 1) * P) \div N + 1]

\* 8 segments over 3 words: groups of 2, 2 and 4
C16_Witness ==
    /\ syn.pc = "returned"
    /\ Len(syn.segments) = 8
    /\ Len(syn.wordBoundaries) = 3
    /\ Len(syn.perWordPhonemes[3]) = 4

\* C17: a synthesis result has phonemes = null whenever phonemize threw,
\* it yielded no segment, or there are no word boundaries; synthesis
\* returns its audio and word boundaries in all these cases.
C17_NullWithoutPhonemes ==
    (/\ syn.pc = "returned"
     /\ \/ syn.phonemizeThrew
        \/ Len(syn.segments) = 0
        \/ Len(syn.wordBoundaries) = 0) =>
        /\ syn.phonemesNull
        /\ syn.audioChunks > 0

\* C18: a stream that ends without an audio chunk makes synthesizeChunk
\* throw, however many WordBoundary chunks it delivered, and nothing
\* follows the throw: the stream is not opened again and no result is
\* returned.
C18_NoAudioThrows ==
    [][ /\ (syn'.pc # "stream" /\ syn'.audioChunks = 0) =>
              syn'.pc = "thrown"
        /\ syn.pc = "thrown" => syn' = syn
      ]_vars

\* the throw after a stream of word boundaries only
C18_Witness ==
    /\ syn.pc = "thrown"
    /\ syn.audioChunks = 0
    /\ Len(syn.wordBoundaries) >= 2

\* the words (counted from 1) whose interval, in ticks, covers the time
\* of the last frame
ActiveWords ==
    {i \in 1..Len(lip.wordBoundaries) :
        LET wb == lip.wordBoundaries[i]
            ticks == lip.currentTime * TicksPerTime
        IN  wb.offset <= ticks /\ ticks <= wb.offset + wb.duration}

\* C19: the word lookup of a frame returns the lowest-index word whose
\* interval start <= t <= start + duration covers the playback time, so
\* word i at a time that is both the end of word i and the start of word
\* i + 1, and no word when none covers it.
C19_LowestActiveWord ==
    lip.frames > 0 =>
        /\ ActiveWords = {} => lip.wordIndex = -1
        /\ ActiveWords # {} =>
               /\ lip.wordIndex + 1 \in ActiveWords
               /\ \A j \in ActiveWords : lip.wordIndex + 1 <= j
        /\ \A i \in 1..(Len(lip.wordBoundaries) - 1) :
               (/\ wordEnd(lip.wordBoundaries[i]) = lip.currentTime
                /\ wordStart(lip.wordBoundaries[i + 1]) = lip.currentTime
                /\ wordStart(lip.wordBoundaries[i]) < lip.currentTime) =>
                   lip.wordIndex + 1 <= i

\* a frame at the time where word 0 ends and word 1 starts
C19_Witness ==
    /\ lip.frames > 0
    /\ Len(lip.wordBoundaries) = 2
    /\ lip.currentTime > 0
    /\ wordEnd(lip.wordBoundaries[1]) = lip.currentTime
    /\ wordStart(lip.wordBoundaries[2]) = lip.currentTime
    /\ lip.wordIndex = 0

\* p2 lies between p and target, and nearer to target unless p is there
MovesToward(p, p2, target) ==
    /\ p <= target => (p <= p2 /\ p2 <= target)
    /\ p >= target => (target <= p2 /\ p2 <= p)
    /\ p # target => p2 # p

\* C20: with a smoothing coefficient in [0, 1), every frame that drives
\* the mouth (amplitude above the threshold, so a target other than
\* {0, 0, 0}) moves previousAa, previousIh and previousOu from their
\* value in [0, 1] toward the frame's target, never past it, and leaves
\* them in [0, 1].
C20_SmoothingNeverOvershoots ==
    [][ (/\ lip'.frames > lip.frames
         /\ lip'.branch \in {"amplitude", "phoneme"}
         /\ lip.mouthSmoothing \in 0..99) =>
            /\ lip'.targetAa + lip'.targetIh + lip'.targetOu > 0
            /\ MovesToward(lip.previousAa, lip'.previousAa, lip'.targetAa)
            /\ MovesToward(lip.previousIh, lip'.previousIh, lip'.targetIh)
            /\ MovesToward(lip.previousOu, lip'.previousOu, lip'.targetOu)
            /\ lip'.previousAa \in 0..Unit
            /\ lip'.previousIh \in 0..Unit
            /\ lip'.previousOu \in 0..Unit
      ]_vars

\* a second frame that came down toward its target from a higher value
\* and has not reached it
C20_Witness ==
    /\ lip.frames >= 2
    /\ lip.branch \in {"amplitude", "phoneme"}
    /\ lip.mouthSmoothing = 90
    /\ lip.previousAa > lip.targetAa
    /\ lip.targetAa > 0

\* ----- the 1-channel avatar ------------------------------------------------

\* line 2099: the single amount updateLipSync derives from the three
\* smoothed channels (0 after a silent frame, lines 1843, 1857, 1934)
previousMouthAmount ==
    Max(lip.previousAa, Max(lip.previousIh, lip.previousOu))

\* live2d-manager.js line 291: the value updateMouthFromAmplitude writes
\* to the mouth parameter of the Live2D model
updateMouthFromAmplitude(amplitude) == Min(amplitude * 2, Unit)

\* C21: the single value driven into the 1-channel avatar's mouth
\* parameter for a frame equals max(open, wide, round) of the frame's
\* mouth target (0.7 for {0.3, 0.7, 0.1}).
C21_SingleChannelIsMax ==
    lip.frames > 0 =>
        updateMouthFromAmplitude(previousMouthAmount)
            = Max(lip.aa, Max(lip.ih, lip.ou))

\* ===== Live2DManager: loadModel, disableAnimations, enableAnimations =======

\* live2d-manager.js lines 319-356, on the manager's fields l: nothing
\* without a model; the update method is saved only while nothing is
\* saved, then replaced by the empty function
disableAnimations(l) ==
    IF l.currentModel = 0 THEN l
    ELSE [l EXCEPT !._originalMotionUpdate =
                       IF @ = 0 THEN l.update[l.currentModel] ELSE @,
                   !.update[l.currentModel] = 0,
                   !._motionsDisabled = TRUE]

\* lines 362-392: nothing without a model or while not disabled; the
\* saved method is assigned to the current model's motion manager
enableAnimations(l) ==
    IF l.currentModel = 0 \/ ~l._motionsDisabled THEN l
    ELSE [l EXCEPT !.update[l.currentModel] =
                       IF l._originalMotionUpdate # 0
                       THEN l._originalMotionUpdate ELSE @,
                   !._motionsDisabled = FALSE]

\* loadModel up to `await Live2DModel.from` (lines 119-154): the previous
\* model is removed and destroyed, currentModel = null
LoadModelStart ==
    /\ ~live.loading
    /\ live.created < MaxModels
    /\ live' = [live EXCEPT !.currentModel = 0, !.loading = TRUE,
                            !.last = "loadModel"]
    /\ UNCHANGED <<schedVars, lip, syn, chat>>

\* Live2DModel.from resolves (lines 154-203): the new model, with its own
\* update method, becomes the current one and disableAnimations runs
LoadModelResolves ==
    /\ live.loading
    /\ LET model == live.created + 1
       IN  live' = disableAnimations(
                       [live EXCEPT !.currentModel = model,
                                    !.created = model,
                                    !.loading = FALSE,
                                    !.last = "loaded"])
    /\ UNCHANGED <<schedVars, lip, syn, chat>>

\* Live2DModel.from rejects (lines 205-209): loadModel rethrows
LoadModelRejects ==
    /\ live.loading
    /\ live' = [live EXCEPT !.loading = FALSE, !.last = "loadFailed"]
    /\ UNCHANGED <<schedVars, lip, syn, chat>>

\* a call of disableAnimations() from outside (speech starts)
DisableAnimations ==
    /\ live.calls < MaxCalls
    /\ live' = [disableAnimations(live) EXCEPT
                    !.calls = @ + 1, !.last = "disableAnimations"]
    /\ UNCHANGED <<schedVars, lip, syn, chat>>

\* a call of enableAnimations() from outside (speech is over)
EnableAnimations ==
    /\ live.calls < MaxCalls
    /\ live' = [enableAnimations(live) EXCEPT
                    !.calls = @ + 1, !.last = "enableAnimations"]
    /\ UNCHANGED <<schedVars, lip, syn, chat>>

NextLive2D ==
    \/ LoadModelStart
    \/ LoadModelResolves
    \/ LoadModelRejects
    \/ DisableAnimations
    \/ EnableAnimations

SpecLive2D == Init /\ [][NextLive2D]_vars

\* ----- properties of the Live2DManager -------------------------------------

\* while animations are disabled the current model's update does nothing
MotionsOffWhileDisabled ==
    (live.currentModel # 0 /\ live._motionsDisabled) =>
        live.update[live.currentModel] = 0

\* a disableAnimations call that finds a saved method keeps it
SavedOriginalKept ==
    (live'.last = "disableAnimations" /\ live._originalMotionUpdate # 0) =>
        live'._originalMotionUpdate = live._originalMotionUpdate

\* after an enableAnimations call the current model's update is the
\* method the model was created with
OwnUpdateAfterEnable ==
    (live.last = "enableAnimations" /\ live.currentModel # 0) =>
        live.update[live.currentModel] = live.currentModel

\* C22: for any sequence of loadModel, disableAnimations and
\* enableAnimations calls: while animations are disabled the current
\* model's motion-manager update is a no-op, a repeated disableAnimations
\* does not lose the saved original, and after enableAnimations the
\* current model's update is again that same model's own original update.
C22_AnimationsRestored ==
    [][ /\ MotionsOffWhileDisabled'
        /\ SavedOriginalKept
        /\ OwnUpdateAfterEnable' ]_vars

\* ===== the scheduler, the render loop and the chat handler =================

\* the Audio of APP_STATE.currentAudio is playing: not paused, not ended
CurrentAudioPlaying ==
    /\ currentAudio # 0
    /\ ~Paused(currentAudio)
    /\ ~Ended(currentAudio)

\* this step called play() on the Audio of call i
PlayCalled(i) == st[i] # "starting" /\ st'[i] = "starting"

\* C23: after every render frame in which no chunk's audio is playing
\* (idle, a chunk still synthesizing, between two chunks, the current
\* audio paused or ended) the mouth is {0, 0, 0} and the smoothing state
\* is 0; after a render frame a non-zero mouth means that isSpeaking is
\* set and the current audio is playing and not ended; and each chunk
\* starts playing with the smoothing state at 0.
C23_MouthClosedUnlessPlaying ==
    [][ /\ (rendered' /\ ~(isSpeaking' /\ CurrentAudioPlaying')) =>
              mouth' = "closed" /\ previous' = "zero"
        /\ (rendered' /\ ~\E i \in Ids : Sounding(i)') =>
              mouth' = "closed" /\ previous' = "zero"
        /\ (rendered' /\ mouth' = "driven") =>
              isSpeaking' /\ CurrentAudioPlaying'
        /\ \A i \in Ids : PlayCalled(i) =>
              mouth' = "closed" /\ previous' = "zero"
      ]_vars

\* C23 witness: a frame rendered between two chunks: the first has ended
\* after it was played, the second is still being synthesized
C23_Witness ==
    /\ rendered
    /\ isSpeaking
    /\ Len(played) > 0
    /\ \E i \in Ids : st[i] = "ended"
    /\ \E i \in Ids : st[i] = "synth"
    /\ mouth = "closed"
    /\ previous = "zero"

\* a synthesis of the text of call i is in flight as a pre-buffer, or its
\* result is held in the slot
PrebufferRequested(i) ==
    \/ pre[i] > 0
    \/ SlotMatches(nextChunkReady, textOf[i])

\* C24: whenever a chunk is playing and the queue is not empty, a
\* synthesis of speechQueue[0] has already been requested: it is in
\* flight, or has completed and is held in the slot (checked for runs in
\* which no synthesis and no playback fails).
C24_HeadIsPrebuffered ==
    (NoFailure /\ Len(speechQueue) > 0 /\ \E i \in Ids : st[i] = "playing")
        => PrebufferRequested(speechQueue[1])

\* a chunk is being synthesized or played
SynthesizingOrPlaying == \E i \in Ids : st[i] \in {"synth", "starting", "playing"}

\* this step is a speakText call that accepted its (non-empty) text
SpeakAccepted == nextId' = nextId + 1

\* C25: speakText(text) called while a chunk is synthesizing or playing
\* appends text at the tail of the queue and leaves the current session,
\* isSpeaking and the lip-sync state unchanged; it issues a pre-buffer
\* synthesis request for text iff the queue has length exactly 1 after
\* the append and the slot is empty, and issues none otherwise.
C25_SpeakWhileBusyQueues ==
    [][ (SpeakAccepted /\ SynthesizingOrPlaying) =>
            /\ speechQueue' = Append(speechQueue, nextId)
            /\ st' = [st EXCEPT ![nextId] = "queued"]
            /\ UNCHANGED <<isSpeaking, currentAudio, audioOf, played,
                           nextChunkReady, animation, wordBoundaries,
                           mouth, previous>>
            /\ IF Len(speechQueue') = 1 /\ nextChunkReady = NoChunk
               THEN /\ pre' = [pre EXCEPT ![nextId] = 1]
                    /\ synthCount' = [synthCount EXCEPT ![nextId] = 1]
               ELSE UNCHANGED <<pre, synthCount>>
      ]_vars

\* C25 witness: a text was queued alone while a chunk plays and the slot
\* holds a result, so no pre-buffer was requested for it; an earlier text
\* was queued with a request
C25_Witness ==
    /\ \E i \in Ids : st[i] = "playing"
    /\ Len(speechQueue) = 1
    /\ st[speechQueue[1]] = "queued"
    /\ synthCount[speechQueue[1]] = 0
    /\ nextChunkReady # NoChunk
    /\ \E k \in 1..Len(played) : played[k].buffered

\* ----- the scheduler under fair completion ---------------------------------

\* Every synthesis request eventually resolves or rejects, every play()
\* promise settles, every playing Audio reaches its end and its ended
\* event is delivered.  speakText calls and render frames are not forced.
Fairness ==
    \A i \in Ids :
        /\ WF_vars(SynthResolve(i) \/ SynthReject(i))
        /\ WF_vars(PrebufResolve(i) \/ PrebufReject(i))
        /\ WF_vars(PlayResolve(i) \/ PlayReject(i))
        /\ WF_vars(AudioEnds(i))
        /\ WF_vars(OnEnded(i))

SpecFair == Init /\ [][Next]_vars /\ Fairness

\* the text of call i has been accepted and has neither started playing
\* nor failed
Waiting(i) == st[i] \in {"queued", "synth", "starting"}

\* the text of call i has started playing, or its failure was surfaced
Served(i) ==
    st[i] \in {"playing", "finished", "ended", "synthFailed", "playFailed"}

\* C26: if every synthesis request eventually resolves or rejects and
\* every started playback eventually ends, every accepted non-empty text
\* eventually starts playing or has its failure surfaced, with no further
\* speakText call needed: no text stays queued forever while the
\* scheduler is idle.
C26_EveryTextServed ==
    \A i \in Ids : Waiting(i) ~> Served(i)

\* C27: for each text accepted by one speakText call at most one synthesis
\* request is ever issued (one pre-buffer request or one fresh synthesis,
\* never both and never two pre-buffer requests), for any interleaving of
\* speakText calls, synthesis completions and ended events.
C27_OneRequestPerText ==
    \A i \in Ids : synthCount[i] <= 1

\* C28: on every frame that computes a non-closed mouth target, and at
\* any moment a frame could, the word boundaries and per-word phonemes
\* updateLipSync reads come from the synthesis result the playing audio
\* was made from: the data of a previous or of a pre-buffered chunk is
\* never applied to the playing chunk.
C28_LipDataOfPlayingChunk ==
    /\ (rendered /\ mouth = "driven") =>
          /\ currentAudio # 0
          /\ wordBoundaries = audioOf[currentAudio].src
          /\ wordBoundaries = textOf[currentAudio]
    /\ (isSpeaking /\ CurrentAudioPlaying) =>
          wordBoundaries = audioOf[currentAudio].src

\* C28 witness: the mouth is driven on a frame of the second chunk, which
\* was taken from the slot after a chunk of another text, while the slot
\* already holds the result for a third text
C28_Witness ==
    /\ rendered
    /\ mouth = "driven"
    /\ currentAudio = 2
    /\ audioOf[2].buffered
    /\ textOf[1] # textOf[2]
    /\ nextChunkReady # NoChunk
    /\ nextChunkReady.text # textOf[2]

\* ===== sendToAI: the chat request queue ====================================

Messages == 1..MaxMessages

\* sendToAI(message) up to its first await (lines 2315-2323), on the chat
\* state c: queue the message while a request is processed, else set
\* isProcessing and begin the request
sendToAI(c, message) ==
    IF c.isProcessing
    THEN [c EXCEPT !.requestQueue = Append(@, message)]
    ELSE [c EXCEPT !.isProcessing = TRUE,
                   !.active = @ \cup {message},
                   !.started = Append(@, message),
                   !.pc = "memories"]

\* a finally block that takes the newest queued message (pop)
FinallyTakesLast(c) ==
    LET cleared == [c EXCEPT !.isProcessing = FALSE, !.pc = "idle"]
        q == cleared.requestQueue
    IN  IF Len(q) > 0
        THEN sendToAI([cleared EXCEPT
                           !.requestQueue = SubSeq(q, 1, Len(q) - 1)],
                      q[Len(q)])
        ELSE cleared

\* the finally block (lines 2388-2396): clear isProcessing, then shift the
\* queue and call sendToAI for that message, which runs up to its first
\* await within the same step
Finally(c) ==
    LET cleared == [c EXCEPT !.isProcessing = FALSE, !.pc = "idle"]
        q == cleared.requestQueue
    IN  IF Len(q) > 0
        THEN sendToAI([cleared EXCEPT !.requestQueue = Tail(q)], Head(q))
        ELSE cleared

\* the user submits the next message (line 2823)
Submit ==
    /\ chat.submitted < MaxMessages
    /\ chat' = sendToAI([chat EXCEPT !.submitted = @ + 1],
                        chat.submitted + 1)
    /\ UNCHANGED <<schedVars, lip, syn, live>>

\* `await retrieveRelevantMemories` of the invocation for message m
\* resolves (line 2334): callLLM is called
MemoriesRetrieved(m) ==
    /\ m \in chat.active
    /\ chat.pc = "memories"
    /\ chat' = [chat EXCEPT !.pc = "llm"]
    /\ UNCHANGED <<schedVars, lip, syn, live>>

\* `await callLLM` resolves with auto-play on and streaming off (lines
\* 2355-2379): the response is stored and shown, speakText is awaited
LLMResponds(m) ==
    /\ m \in chat.active
    /\ chat.pc = "llm"
    /\ chat' = [chat EXCEPT !.pc = "speak"]
    /\ UNCHANGED <<schedVars, lip, syn, live>>

\* the try block of the invocation for message m runs to its end (lines
\* 2348-2382: callLLM resolved and nothing more is awaited, or the
\* awaited speakText returned), then finally
RequestSucceeds(m) ==
    /\ m \in chat.active
    /\ chat.pc \in {"llm", "speak"}
    /\ chat' = Finally([chat EXCEPT !.active = @ \ {m},
                                    !.finished = Append(@, m)])
    /\ UNCHANGED <<schedVars, lip, syn, live>>

\* an await of the invocation for message m throws: catch (lines
\* 2384-2387), then finally
RequestFails(m) ==
    /\ m \in chat.active
    /\ chat' = Finally([chat EXCEPT !.active = @ \ {m},
                                    !.finished = Append(@, m),
                                    !.failed = @ \cup {m}])
    /\ UNCHANGED <<schedVars, lip, syn, live>>

NextChat ==
    \/ Submit
    \/ \E m \in Messages : MemoriesRetrieved(m)
    \/ \E m \in Messages : LLMResponds(m)
    \/ \E m \in Messages : RequestSucceeds(m)
    \/ \E m \in Messages : RequestFails(m)

\* every promise an invocation awaits eventually settles
SpecChat ==
    /\ Init
    /\ [][NextChat]_vars
    /\ WF_vars(\E m \in Messages :
                   \/ MemoriesRetrieved(m)
                   \/ LLMResponds(m)
                   \/ RequestSucceeds(m)
                   \/ RequestFails(m))

\* ----- properties of sendToAI ----------------------------------------------

\* the messages 1..n in order
Upto(n) == [k \in 1..n |-> k]

\* at most one request in progress, isProcessing set exactly while one is,
\* requests begun and finished in submission order, each once, and the
\* queue holding the later messages in submission order
OneAtATimeInOrder ==
    /\ Cardinality(chat.active) <= 1
    /\ chat.isProcessing <=> chat.active # {}
    /\ chat.started = Upto(Len(chat.started))
    /\ chat.finished = Upto(Len(chat.finished))
    /\ chat.requestQueue =
          [k \in 1..(chat.submitted - Len(chat.started)) |->
              Len(chat.started) + k]
    /\ chat.active = {m \in Messages :
                          Len(chat.finished) < m /\ m <= Len(chat.started)}

\* C29: chat requests are processed one at a time and in submission
\* order: never two requests in progress, a message submitted while one
\* is in progress is queued and processed after all earlier ones,
\* isProcessing is cleared after every request, succeeded or failed, and
\* every submitted message is eventually processed, exactly once.
C29_OneRequestAtATime ==
    /\ []OneAtATimeInOrder
    /\ \A m \in Messages :
          (chat.submitted >= m) ~> (Len(chat.finished) >= m)

\* C29 witness: two messages wait in the queue behind a request in
\* progress, after an earlier request failed
C29_Witness ==
    /\ chat.failed # {}
    /\ chat.active # {}
    /\ Len(chat.requestQueue) >= 2

\* ----- per-word phonemes and the words of the track ------------------------

\* C30: whenever synthesizeChunk returns a non-null per-word phoneme
\* array, its length equals the number of captured word boundaries, in
\* all three distribution cases (P = N, P > N, P < N), so every active
\* word index the lip-sync driver finds in the track has its own entry.
C30_PhonemeEntryPerWord ==
    (syn.pc = "returned" /\ ~syn.phonemesNull) =>
        /\ Len(syn.perWordPhonemes) = Len(syn.wordBoundaries)
        /\ \A currentTime \in Times :
              LET wordIndex == FindWord(syn.wordBoundaries, currentTime)
              IN  wordIndex # -1 =>
                      wordIndex + 1 \in DOMAIN syn.perWordPhonemes

\* C30 witness: more segments than words, not a multiple of the word
\* count, and a playback time at which the last word of the track is the
\* active one
C30_Witness ==
    /\ syn.pc = "returned"
    /\ ~syn.phonemesNull
    /\ Len(syn.wordBoundaries) >= 2
    /\ Len(syn.segments) > Len(syn.wordBoundaries)
    /\ Len(syn.segments) % Len(syn.wordBoundaries) # 0
    /\ \E currentTime \in Times :
          FindWord(syn.wordBoundaries, currentTime)
              = Len(syn.wordBoundaries) - 1

====
